---------------------------- MODULE Spec2Model ----------------------------
(***************************************************************************)
(* A model of the COS catalogue scraper (src/cos_scraper.py): the record   *)
(* normalizer COSDataProcessor, the sink SupabaseImporter and the          *)
(* orchestrator main.run_scraper.                                          *)
(*                                                                         *)
(* Python strings are TLA+ strings.  A JSON value is a tagged record:      *)
(* JStr, JNum, JNull, JList (a sequence of JSON values) or JMap (a         *)
(* function from its keys to JSON values), so that dict.get, truthiness    *)
(* and the AttributeError/TypeError of a method applied to a value of the  *)
(* wrong type are computed as Python computes them.                        *)
(***************************************************************************)
EXTENDS Integers, Sequences, FiniteSets, TLC

VARIABLES
    inputs,     \* which documents a source may hold when it is read
    limit,      \* the `limit` of main(): NoLimit (None) or an integer
    sources,    \* files_to_scrape followed by urls_to_scrape
    idx,        \* position of run_scraper in `sources`
    pc,         \* where the current source stands
    items,      \* json_data["items"] of the current source
    pos,        \* next entry of `items` process_json_response examines
    products,   \* the `products` list of process_json_response
    batch,      \* the list handed to import_products
    results,    \* the `results` tally of import_products
    total,      \* total_results of run_scraper
    store,      \* the rows of the table "products"
    clock,      \* datetime.utcnow(), in ticks
    written,    \* history: the writes import_products attempted for this source
    runs,       \* history: one entry per source run_scraper is done with
    reads,      \* history: the sources run_scraper has called scrape_from_json_* for
    calls       \* history: the generate_embedding calls made for this source

vars == <<inputs, limit, sources, idx, pc, items, pos, products, batch,
          results, total, store, clock, written, runs, reads, calls>>

---------------------------------------------------------------------------
(* Bounds of the model. *)

MaxItems == 2

MaxSources == 2

MaxLimit == 2

---------------------------------------------------------------------------
(* JSON values and the Python operations the code applies to them. *)

JNull == [t |-> "null"]

JStr(s) == [t |-> "str", v |-> s]

JNum(n) == [t |-> "num", v |-> n]

JList(q) == [t |-> "list", v |-> q]

JMap(m) == [t |-> "map", v |-> m]

EmptyMap == JMap([k \in {} |-> JNull])

\* bool(x)
Truthy(j) ==
    CASE j.t = "null" -> FALSE
      [] j.t = "str"  -> j.v # ""
      [] j.t = "num"  -> j.v # 0
      [] j.t = "list" -> Len(j.v) > 0
      [] j.t = "map"  -> DOMAIN j.v # {}

\* d.get(k, default), for d a dict
DictGet(d, k, default) == IF k \in DOMAIN d.v THEN d.v[k] ELSE default

Char(s, i) == SubSeq(s, i, i)

Digits == <<"0", "1", "2", "3", "4", "5", "6", "7", "8", "9">>

IsDigit(c) == \E d \in 1..10 : Digits[d] = c

DigitVal(c) == (CHOOSE d \in 1..10 : Digits[d] = c) - 1

RECURSIVE NatToStr(_)
NatToStr(n) == IF n < 10 THEN Digits[n + 1]
               ELSE NatToStr(n \div 10) \o Digits[(n % 10) + 1]

\* f"{x}" for the values an id or a uri takes
Fmt(j) ==
    CASE j.t = "str"  -> j.v
      [] j.t = "num"  -> IF j.v < 0 THEN "-" \o NatToStr(0 - j.v) ELSE NatToStr(j.v)
      [] j.t = "null" -> "None"
      [] OTHER        -> "?"

Upper == <<"A", "B", "C", "D", "E", "F", "G", "H", "I", "J", "K", "L", "M",
           "N", "O", "P", "Q", "R", "S", "T", "U", "V", "W", "X", "Y", "Z">>

LowerAlpha == <<"a", "b", "c", "d", "e", "f", "g", "h", "i", "j", "k", "l", "m",
                "n", "o", "p", "q", "r", "s", "t", "u", "v", "w", "x", "y", "z">>

LowerChar(c) == IF \E i \in 1..26 : Upper[i] = c
                THEN LowerAlpha[CHOOSE i \in 1..26 : Upper[i] = c]
                ELSE c

\* str.lower()
RECURSIVE Lower(_)
Lower(s) == IF s = "" THEN ""
            ELSE LowerChar(Char(s, 1)) \o Lower(SubSeq(s, 2, Len(s)))

\* sub in s
Contains(sub, s) ==
    \E i \in 1..(Len(s) - Len(sub) + 1) : SubSeq(s, i, i + Len(sub) - 1) = sub

IsSpace(c) == c = " "

RECURSIVE LStrip(_)
LStrip(s) == IF s # "" /\ IsSpace(Char(s, 1)) THEN LStrip(SubSeq(s, 2, Len(s))) ELSE s

RECURSIVE RStrip(_)
RStrip(s) == IF s # "" /\ IsSpace(Char(s, Len(s)))
             THEN RStrip(SubSeq(s, 1, Len(s) - 1)) ELSE s

\* str.strip()
Strip(s) == RStrip(LStrip(s))

\* str.replace(old, new), old non-empty
RECURSIVE Replace(_, _, _)
Replace(s, old, new) ==
    IF Len(s) < Len(old) THEN s
    ELSE IF SubSeq(s, 1, Len(old)) = old
         THEN new \o Replace(SubSeq(s, Len(old) + 1, Len(s)), old, new)
         ELSE Char(s, 1) \o Replace(SubSeq(s, 2, Len(s)), old, new)

---------------------------------------------------------------------------
(* float(): a price is (-1)^neg * mant / 10^exp, mant not a multiple of 10 *)
(* unless exp = 0.  The texts of the model hold digits, a sign, ".", ",",  *)
(* the euro sign, blanks and letters that occur in no float literal, so    *)
(* the exponent, "inf", "nan" and "_" forms of float() are not needed.     *)

Zero == [neg |-> FALSE, mant |-> 0, exp |-> 0]

RECURSIVE ToNat(_)
ToNat(ds) == IF ds = "" THEN 0
             ELSE 10 * ToNat(SubSeq(ds, 1, Len(ds) - 1)) + DigitVal(Char(ds, Len(ds)))

AllDigits(ds) == \A i \in 1..Len(ds) : IsDigit(Char(ds, i))

RECURSIVE Canon(_)
Canon(p) == IF p.exp > 0 /\ p.mant % 10 = 0
            THEN Canon([p EXCEPT !.mant = p.mant \div 10, !.exp = p.exp - 1])
            ELSE p

\* float(s): [ok |-> FALSE] stands for the ValueError
ParseFloat(s) ==
    LET t    == Strip(s)
        sgn  == t # "" /\ Char(t, 1) \in {"-", "+"}
        body == IF sgn THEN SubSeq(t, 2, Len(t)) ELSE t
        dots == {i \in 1..Len(body) : Char(body, i) = "."}
        dot  == IF dots = {} THEN Len(body) + 1 ELSE CHOOSE i \in dots : TRUE
        int  == SubSeq(body, 1, dot - 1)
        frac == SubSeq(body, dot + 1, Len(body))
    IN IF Cardinality(dots) <= 1 /\ AllDigits(int) /\ AllDigits(frac)
          /\ Len(int) + Len(frac) > 0
       THEN [ok |-> TRUE,
             val |-> Canon([neg  |-> sgn /\ Char(t, 1) = "-",
                            mant |-> ToNat(int \o frac),
                            exp  |-> Len(frac)])]
       ELSE [ok |-> FALSE, val |-> Zero]

\* price >= 0
NonNegative(p) == ~p.neg \/ p.mant = 0

---------------------------------------------------------------------------
(* COSEmbeddingGenerator and COSDataProcessor.  The category and metadata  *)
(* fields of a product are left out: no step of the pipeline reads them.   *)

BaseUrl == "https://www.cos.com/en-eu/"

\* The vector the model returns for an image: its dimension and values are
\* the model's, one vector per image.
Vec(image_url) == [t |-> "vec", v |-> image_url]

\* generate_embedding: `fails` is whether the download, the decoding or the
\* forward pass raises; the except clause turns that into None.
GenerateEmbedding(image_url, fails) == IF fails THEN JNull ELSE Vec(image_url)

\* What a `for` loop iterates: the entries of a list, the characters of a
\* string.  None and numbers are not iterable (TypeError); a dict as the
\* categories value is not among the inputs of the model.
Iterable(j) == j.t \in {"list", "str"}

Elements(j) == IF j.t = "list" THEN j.v ELSE [i \in 1..Len(j.v) |-> JStr(Char(j.v, i))]

IsMenCat(c) == c.t = "str" /\ Contains("men", Lower(c.v))

\* any("men" in cat.lower() for cat in categories): any() stops at the first
\* True, and cat.lower() raises on an entry that is no string.
AnyMen(cats) ==
    LET stop == {i \in 1..Len(cats) : cats[i].t # "str" \/ IsMenCat(cats[i])}
        first == CHOOSE i \in stop : \A k \in stop : i <= k
    IN IF stop = {} THEN "no"
       ELSE IF cats[first].t # "str" THEN "raise" ELSE "yes"

RECURSIVE TagsOf(_)
TagsOf(cats) ==
    IF Len(cats) = 0 THEN <<>>
    ELSE LET c == Lower(Head(cats).v)
             t == IF Contains("cashmere", c) THEN <<"cashmere">>
                  ELSE IF Contains("wool", c) THEN <<"wool">>
                  ELSE IF Contains("cotton", c) THEN <<"cotton">>
                  ELSE <<>>
         IN t \o TagsOf(Tail(cats))

RetNone(called) == [kind |-> "none", called |-> called]

Raised(called) == [kind |-> "exc", called |-> called]

RetProduct(p) == [kind |-> "product", called |-> TRUE, product |-> p]

\* The fallback taking the last image of the list instead of the first.
ResolveImageLast(pj) ==
    LET primary_image == DictGet(pj, "primaryImage", EmptyMap)
        images == DictGet(pj, "images", JList(<<>>))
    IN IF primary_image.t # "map" THEN [exc |-> TRUE, url |-> JNull]
       ELSE LET src == DictGet(primary_image, "src", JStr(""))
            IN IF Truthy(src) THEN [exc |-> FALSE, url |-> src]
               ELSE IF ~Truthy(images) THEN [exc |-> FALSE, url |-> src]
               ELSE IF images.t # "list" \/ images.v[Len(images.v)].t # "map"
                    THEN [exc |-> TRUE, url |-> JNull]
                    ELSE [exc |-> FALSE,
                          url |-> DictGet(images.v[Len(images.v)], "src", JStr(""))]

\* The image the listing resolves to: primaryImage.src, else images[0].src.
\* [exc |-> TRUE] when a .get is applied to a value that is no dict.
ResolveImage(pj) ==
    LET primary_image == DictGet(pj, "primaryImage", EmptyMap)
        images == DictGet(pj, "images", JList(<<>>))
    IN IF primary_image.t # "map" THEN [exc |-> TRUE, url |-> JNull]
       ELSE LET src == DictGet(primary_image, "src", JStr(""))
            IN IF Truthy(src) THEN [exc |-> FALSE, url |-> src]
               ELSE IF ~Truthy(images) THEN [exc |-> FALSE, url |-> src]
               ELSE IF images.t # "list" \/ images.v[1].t # "map"
                    THEN [exc |-> TRUE, url |-> JNull]
                    ELSE [exc |-> FALSE, url |-> DictGet(images.v[1], "src", JStr(""))]

\* The price of the listing: [exc |-> TRUE] when price is no string
\* (.replace raises AttributeError outside the inner try), else float() of
\* the cleaned text, 0.0 on ValueError.
ParsePrice(pj) ==
    LET raw == DictGet(pj, "price", JStr(""))
    IN IF raw.t # "str" THEN [exc |-> TRUE, val |-> Zero]
       ELSE LET price_str == Strip(Replace(Replace(raw.v, "€", ""), ",", "."))
                f == ParseFloat(price_str)
            IN [exc |-> FALSE, val |-> IF f.ok THEN f.val ELSE Zero]

\* The gender of the listing: "WOMAN" unless some category contains "men".
GenderOf(cats) == IF AnyMen(cats) = "yes" THEN "MAN" ELSE "WOMAN"

\* The try block of process_product (lines 108-194), for a dict.
ProcessBody(pj, fails) ==
    LET product_id == DictGet(pj, "id", JStr(""))
        uri == DictGet(pj, "uri", JStr(""))
        product_url == IF Truthy(uri) THEN BaseUrl \o Fmt(uri) ELSE ""
        img == ResolveImage(pj)
        name == DictGet(pj, "name", JStr(""))
        categories == DictGet(pj, "categories", JList(<<>>))
        cats == Elements(categories)
        price == ParsePrice(pj)
    IN IF ~Truthy(product_id) THEN RetNone(FALSE)
       ELSE IF img.exc THEN Raised(FALSE)
       ELSE IF ~Truthy(img.url) THEN RetNone(FALSE)
       ELSE IF name.t # "str" THEN Raised(FALSE)
       ELSE IF Strip(name.v) = "" THEN RetNone(FALSE)
       ELSE IF ~Iterable(categories) THEN Raised(FALSE)
       ELSE IF AnyMen(cats) = "raise" THEN Raised(FALSE)
       ELSE IF price.exc THEN Raised(FALSE)
       ELSE IF \E i \in 1..Len(cats) : cats[i].t # "str" THEN Raised(TRUE)
       ELSE RetProduct([id          |-> "cos_" \o Fmt(product_id),
                        source      |-> "scraper",
                        product_url |-> product_url,
                        image_url   |-> img.url.v,
                        brand       |-> "COS",
                        title       |-> Strip(name.v),
                        gender      |-> GenderOf(cats),
                        price       |-> price.val,
                        currency    |-> "EUR",
                        embedding   |-> GenerateEmbedding(img.url.v, fails),
                        country     |-> "EU",
                        tags        |-> IF TagsOf(cats) = <<>> THEN JNull
                                        ELSE JList(TagsOf(cats))])

\* process_product: the try block, and the except clause, which logs
\* product_json.get('id', 'unknown') and returns None.  On an entry that is
\* no dict the first .get raises, and so does the one in the except clause:
\* that AttributeError leaves process_product ("raise").
ProcessProduct(pj, fails) ==
    IF pj.t # "map" THEN [kind |-> "raise", called |-> FALSE]
    ELSE LET r == ProcessBody(pj, fails)
         IN IF r.kind = "exc" THEN RetNone(r.called) ELSE r

---------------------------------------------------------------------------
(* The inputs of the model. *)

Obj(id, uri, rest) == JMap(("id" :> JStr(id)) @@ ("uri" :> JStr(uri)) @@ rest)

Img(src) == JMap("src" :> JStr(src))

Coat ==
    Obj("p1", "coat", ("primaryImage" :> Img("img1")) @@ ("name" :> JStr(" Wool Coat "))
                      @@ ("categories" :> JList(<<JStr("Men's Knitwear")>>))
                      @@ ("price" :> JStr("€129,00")))

Dress ==
    Obj("p2", "dress", ("images" :> JList(<<Img("img2")>>)) @@ ("name" :> JStr("Dress"))
                       @@ ("categories" :> JList(<<JStr("Dresses")>>))
                       @@ ("price" :> JStr("199.50")))

Untitled == Obj("p3", "scarf", ("primaryImage" :> Img("img3")) @@ ("name" :> JStr("  ")))

NotAMapping == JStr("oops")

\* The entries a source of the pipeline specification holds.
Catalogue == {Coat, Dress, Untitled, NotAMapping}

\* A key that is absent, or present with one of `vals`.
Opt(k, vals) == {<<>>} \cup {k :> v : v \in vals}

IdOpts == Opt("id", {JStr(""), JStr("p1"), JNum(0), JNum(7)})

UriOpts == Opt("uri", {JStr("coat")})

PrimaryOpts == Opt("primaryImage", {JNull, Img(""), Img("img1")})

ImagesOpts ==
    Opt("images", {JList(<<>>), JList(<<Img("img2")>>), JList(<<Img(""), Img("img3")>>)})

NameOpts == Opt("name", {JStr("   "), JStr(" Coat "), JNull})

CategoryOpts ==
    Opt("categories", {JList(<<JStr("Men's Knitwear")>>),
                       JList(<<JStr("Dresses")>>),
                       JList(<<JStr("Women's Wool")>>),
                       JList(<<JStr("Cashmere Sweater"), JStr("MENSWEAR")>>),
                       JList(<<JStr("Wool Coats"), JStr("Wool Knitwear")>>),
                       JList(<<JStr("Cashmere Wool Blend")>>)})

PriceOpts ==
    Opt("price", {JStr(""), JStr("€129,00"), JStr("199.50"), JStr("sold"),
                  JStr("-5,00"), JStr(" 12 "), JStr("1.299,00"), JNull, JNum(129)})

\* The listings of the normalizer specification: every combination of the
\* options of each field.
AllListings ==
    {JMap(a @@ b @@ c @@ d @@ e @@ f @@ g) :
        a \in IdOpts, b \in UriOpts, c \in PrimaryOpts, d \in ImagesOpts,
        e \in NameOpts, f \in CategoryOpts, g \in PriceOpts}

SeqsUpTo(S, n) == UNION {[1..k -> S] : k \in 0..n}

Doc(q) == JMap("items" :> JList(q))

\* The documents over the catalogue.
CatalogueDocs == {EmptyMap} \cup {Doc(q) : q \in SeqsUpTo(Catalogue, MaxItems)}

\* The documents holding one listing.
ListingDocs == {Doc(<<l>>) : l \in AllListings \cup {NotAMapping}}

\* The documents a readable source may hold when it is read: any document
\* over the catalogue, any single listing, or the one document all the
\* sources of the run hold.
Docs(inp) ==
    CASE inp.kind = "catalogue" -> CatalogueDocs
      [] inp.kind = "listings"  -> ListingDocs
      [] inp.kind = "fixed"     -> {inp.doc}

\* --limit, or "limit" of config.json: None or an integer.
Limits == {JNull} \cup {JNum(n) : n \in (0 - 1)..MaxLimit}

File(n) == [kind |-> "file", n |-> n]

Url(n) == [kind |-> "url", n |-> n]

\* files_to_scrape, then urls_to_scrape
SourceLists ==
    {[i \in 1..c[1] |-> File(i)] \o [i \in 1..c[2] |-> Url(i)] :
        c \in {d \in (0..MaxSources) \X (0..MaxSources) : d[1] + d[2] \in 1..MaxSources}}

---------------------------------------------------------------------------
(* SupabaseImporter. *)

NoResults == [inserted |-> 0, updated |-> 0, errors |-> 0]

\* product_dict of import_products, created_at being the time of the call
ProductDict(product, now) ==
    [id          |-> product.id,
     source      |-> product.source,
     product_url |-> product.product_url,
     image_url   |-> product.image_url,
     brand       |-> product.brand,
     title       |-> product.title,
     gender      |-> product.gender,
     price       |-> product.price,
     currency    |-> product.currency,
     embedding   |-> product.embedding,
     country     |-> product.country,
     tags        |-> product.tags,
     created_at  |-> now]

\* on_conflict="source,product_url"
Key(row) == <<row.source, row.product_url>>

\* An insert that ignores the conflict key.
UpsertNoConflict(rows, row) == rows \cup {row}

\* table("products").upsert(row, on_conflict="source,product_url"): the row
\* replaces the row of the same key, if there is one.
Upsert(rows, row) == {r \in rows : Key(r) # Key(row)} \cup {row}

\* products[:n]
Slice(q, n) ==
    LET m == IF n < 0 THEN (IF Len(q) + n < 0 THEN 0 ELSE Len(q) + n)
             ELSE (IF n < Len(q) THEN n ELSE Len(q))
    IN SubSeq(q, 1, m)

\* `if limit: products = products[:limit]`
Truncate(q, lim) == IF Truthy(lim) THEN Slice(q, lim.v) ELSE q

---------------------------------------------------------------------------
(* The pipeline: run_scraper's loop over the sources, scrape_from_json_file *)
(* and scrape_from_json_url (the same steps for a file and for a URL),      *)
(* process_json_response's loop and import_products's loop.                 *)

Start ==
    /\ idx = 1
    /\ pc = "next"
    /\ items = <<>>
    /\ pos = 1
    /\ products = <<>>
    /\ batch = <<>>
    /\ results = NoResults
    /\ total = NoResults
    /\ store = {}
    /\ clock = 0
    /\ written = <<>>
    /\ runs = <<>>
    /\ reads = <<>>
    /\ calls = <<>>

Init ==
    /\ limit \in Limits
    /\ sources \in SourceLists
    /\ inputs = [kind |-> "catalogue"]
    /\ Start

\* What the history keeps of a source: how it ended ("ok": import_products
\* returned; "unreadable": the load raised; "raised": normalizing raised),
\* its entries, the products process_product returned, the list handed to
\* the sink, the sink's tally and its writes.
Run(status, its, prods, handed, tally, writes) ==
    [status |-> status, items |-> its, products |-> prods, batch |-> handed,
     results |-> tally, written |-> writes]

\* The except clause of run_scraper: one error, and on to the next source.
SourceFailed(why) ==
    /\ total' = [total EXCEPT !.errors = @ + 1]
    /\ runs' = Append(runs, Run(why, IF why = "raised" THEN items ELSE <<>>,
                                 IF why = "raised" THEN products ELSE <<>>,
                                 <<>>, NoResults, <<>>))
    /\ idx' = idx + 1
    /\ pc' = "next"

\* The sources taken from the last to the first.
CurrentSourceReversed == sources[Len(sources) + 1 - idx]

\* file_path or url of the turn of run_scraper's loops that is under way.
CurrentSource == sources[idx]

\* generate_embedding(image_url), called for the entry at position n.
Call(n, pj) == [pos |-> n, image_url |-> ResolveImage(pj).url.v]

\* scrape_from_json_* is entered, with fresh locals, and
\* load_json_from_file / fetch_json_from_url returns the document.
LoadSource ==
    /\ pc = "next"
    /\ idx <= Len(sources)
    /\ \E doc \in Docs(inputs) :
          items' = DictGet(doc, "items", JList(<<>>)).v
    /\ pos' = 1
    /\ products' = <<>>
    /\ batch' = <<>>
    /\ results' = NoResults
    /\ written' = <<>>
    /\ reads' = Append(reads, CurrentSource)
    /\ calls' = <<>>
    /\ pc' = "normalize"
    /\ UNCHANGED <<inputs, limit, sources, idx, total, store, clock, runs>>

\* load_json_from_file / fetch_json_from_url raises: the file is missing,
\* the response is not 2xx, the body is not JSON.
LoadFails ==
    /\ pc = "next"
    /\ idx <= Len(sources)
    /\ SourceFailed("unreadable")
    /\ reads' = Append(reads, CurrentSource)
    /\ UNCHANGED <<inputs, limit, sources, items, pos, products, batch, results,
                   store, clock, written, calls>>

\* One turn of process_json_response's loop, process_product returning.
ProcessItem ==
    /\ pc = "normalize"
    /\ pos <= Len(items)
    /\ \E fails \in BOOLEAN :
          LET r == ProcessProduct(items[pos], fails)
          IN /\ r.kind # "raise"
             /\ products' = IF r.kind = "product" THEN Append(products, r.product)
                            ELSE products
             /\ calls' = IF r.called THEN Append(calls, Call(pos, items[pos]))
                         ELSE calls
    /\ pos' = pos + 1
    /\ UNCHANGED <<inputs, limit, sources, idx, pc, items, batch, results, total,
                   store, clock, written, runs, reads>>

\* One turn of process_json_response's loop, process_product raising: the
\* exception leaves process_json_response and scrape_from_json_*, and
\* run_scraper catches it.
ProcessItemRaises ==
    /\ pc = "normalize"
    /\ pos <= Len(items)
    /\ ProcessProduct(items[pos], FALSE).kind = "raise"
    /\ SourceFailed("raised")
    /\ UNCHANGED <<inputs, limit, sources, items, pos, products, batch, results,
                   store, clock, written, reads, calls>>

\* process_json_response returns; the limit is applied and import_products
\* is entered.
StartImport ==
    /\ pc = "normalize"
    /\ pos > Len(items)
    /\ batch' = Truncate(products, limit)
    /\ results' = NoResults
    /\ written' = <<>>
    /\ pc' = "import"
    /\ UNCHANGED <<inputs, limit, sources, idx, items, pos, products, total,
                   store, clock, runs, reads, calls>>

\* import_products with an except clause that only logs.
ImportOneUncounted ==
    /\ pc = "import"
    /\ Len(written) < Len(batch)
    /\ \E outcome \in {"data", "empty", "raise"} :
          LET row == ProductDict(batch[Len(written) + 1], clock)
          IN /\ store' = IF outcome = "data" THEN Upsert(store, row) ELSE store
             /\ results' = IF outcome = "data"
                           THEN [results EXCEPT !.inserted = @ + 1]
                           ELSE IF outcome = "empty"
                                THEN [results EXCEPT !.errors = @ + 1]
                                ELSE results
             /\ written' = Append(written, [row |-> row, ok |-> outcome = "data"])
    /\ clock' = clock + 1
    /\ UNCHANGED <<inputs, limit, sources, idx, pc, items, pos, products, batch,
                   total, runs, reads, calls>>

\* One turn of import_products's loop: the upsert returns the row ("data"),
\* returns nothing ("empty") or raises ("raise").
ImportOne ==
    /\ pc = "import"
    /\ Len(written) < Len(batch)
    /\ \E outcome \in {"data", "empty", "raise"} :
          LET row == ProductDict(batch[Len(written) + 1], clock)
          IN /\ store' = IF outcome = "data" THEN Upsert(store, row) ELSE store
             /\ results' = IF outcome = "data"
                           THEN [results EXCEPT !.inserted = @ + 1]
                           ELSE [results EXCEPT !.errors = @ + 1]
             /\ written' = Append(written, [row |-> row, ok |-> outcome = "data"])
    /\ clock' = clock + 1
    /\ UNCHANGED <<inputs, limit, sources, idx, pc, items, pos, products, batch,
                   total, runs, reads, calls>>

\* import_products returns and run_scraper adds the tally to its total.
FinishSource ==
    /\ pc = "import"
    /\ Len(written) = Len(batch)
    /\ total' = [inserted |-> total.inserted + results.inserted,
                 updated  |-> total.updated + results.updated,
                 errors   |-> total.errors + results.errors]
    /\ runs' = Append(runs, Run("ok", items, products, batch, results, written))
    /\ idx' = idx + 1
    /\ pc' = "next"
    /\ UNCHANGED <<inputs, limit, sources, items, pos, products, batch, results,
                   store, clock, written, reads, calls>>

\* run_scraper returns total_results.
Finish ==
    /\ pc = "next"
    /\ idx > Len(sources)
    /\ pc' = "done"
    /\ UNCHANGED <<inputs, limit, sources, idx, items, pos, products, batch,
                   results, total, store, clock, written, runs, reads, calls>>

Next ==
    \/ LoadSource
    \/ LoadFails
    \/ ProcessItem
    \/ ProcessItemRaises
    \/ StartImport
    \/ ImportOne
    \/ FinishSource
    \/ Finish

Spec == Init /\ [][Next]_vars

\* The normalizer on one listing at a time: a single source holding a single
\* entry, every combination of field values, no limit.
InitNormalizer ==
    /\ limit = JNull
    /\ sources = <<File(1)>>
    /\ inputs = [kind |-> "listings"]
    /\ Start

SpecNormalizer == InitNormalizer /\ [][Next]_vars

\* The same file supplied twice, holding the same document both times it is
\* read, no limit: the same batch is ingested twice.
InitReingest ==
    /\ limit = JNull
    /\ sources = <<File(1), File(1)>>
    /\ inputs \in {[kind |-> "fixed", doc |-> d] : d \in CatalogueDocs}
    /\ Start

SpecReingest == InitReingest /\ [][Next]_vars

\* The documents of the ordering specification: two valid listings, a
\* valid listing followed by an entry that is no mapping, a listing that
\* is dropped.
OrderingDocs == {Doc(<<Coat, Dress>>), Doc(<<Coat, NotAMapping>>), Doc(<<Untitled>>)}

\* Any list of files and URLs, each source holding the same document when
\* it is read, no limit.
InitOrdering ==
    /\ limit = JNull
    /\ sources \in SourceLists
    /\ inputs \in {[kind |-> "fixed", doc |-> d] : d \in OrderingDocs}
    /\ Start

SpecOrdering == InitOrdering /\ [][Next]_vars

---------------------------------------------------------------------------
(* The claims. *)

AllOk(writes) == \A i \in 1..Len(writes) : writes[i].ok

Count(writes, ok) == Cardinality({i \in 1..Len(writes) : writes[i].ok = ok})

WithoutEmbedding(product) == [product EXCEPT !.embedding = JNull]

\* The same products, whatever the embeddings.
SameBatch(b1, b2) ==
    /\ Len(b1) = Len(b2)
    /\ \A i \in 1..Len(b1) : WithoutEmbedding(b1[i]) = WithoutEmbedding(b2[i])

\* The row the last write of key k wrote.
LastRow(writes, k) ==
    writes[CHOOSE i \in 1..Len(writes) :
              /\ Key(writes[i].row) = k
              /\ \A j \in (i + 1)..Len(writes) : Key(writes[j].row) # k].row

\* The last two sources have just been ingested, they held the same batch
\* and every write of both succeeded.
IngestedTwice ==
    /\ pc \in {"next", "done"}
    /\ Len(runs) >= 2
    /\ runs[Len(runs) - 1].status = "ok"
    /\ runs[Len(runs)].status = "ok"
    /\ SameBatch(runs[Len(runs) - 1].batch, runs[Len(runs)].batch)
    /\ AllOk(runs[Len(runs) - 1].written)
    /\ AllOk(runs[Len(runs)].written)

\* C1: after the same batch is imported twice, every write succeeding, the
\* store holds exactly one row for each (source, product_url) of the batch,
\* and that row is, field by field (embedding and created_at included), the
\* row the second run wrote last for that key.
C1_IdempotentUpsert ==
    IngestedTwice =>
        LET second == runs[Len(runs)].written
        IN \A i \in 1..Len(second) :
              {r \in store : Key(r) = Key(second[i].row)}
                  = {LastRow(second, Key(second[i].row))}

\* C1's case: a product written with its embedding by the first run and
\* without it by the second; the store holds it without.
C1_Witness ==
    /\ IngestedTwice
    /\ \E i \in 1..Len(runs[Len(runs)].written) :
          /\ runs[Len(runs) - 1].written[i].row.embedding # JNull
          /\ runs[Len(runs)].written[i].row.embedding = JNull
          /\ \E r \in store : Key(r) = Key(runs[Len(runs)].written[i].row)

\* A successful write is in the store, unless a later successful write of
\* the same batch replaced it.
Committed(writes, rows) ==
    \A i \in 1..Len(writes) :
        writes[i].ok =>
            \/ writes[i].row \in rows
            \/ \E j \in (i + 1)..Len(writes) :
                  writes[j].ok /\ Key(writes[j].row) = Key(writes[i].row)

\* C2: in import_products every write that fails (exception or empty
\* response) adds one to 'errors', every write that succeeds adds one to
\* 'inserted' and is committed, 'updated' stays 0, and the loop goes on to
\* the other records: on return inserted + errors is the batch length.
C2_SinkIsolation ==
    /\ pc = "import" =>
          /\ results.inserted = Count(written, TRUE)
          /\ results.errors = Count(written, FALSE)
          /\ results.updated = 0
          /\ Committed(written, store)
    /\ \A n \in 1..Len(runs) :
          runs[n].status = "ok" =>
             /\ Len(runs[n].written) = Len(runs[n].batch)
             /\ runs[n].results.inserted + runs[n].results.errors = Len(runs[n].batch)
             /\ runs[n].results.inserted = Count(runs[n].written, TRUE)
             /\ runs[n].results.updated = 0

\* C2's case: the second ingestion of a batch of two, whose first write
\* fails and whose second overwrites the row the first ingestion inserted.
C2_Witness ==
    /\ Len(runs) = 2
    /\ runs[1].status = "ok"
    /\ runs[2].status = "ok"
    /\ Len(runs[2].written) = 2
    /\ runs[1].written[2].ok
    /\ ~runs[2].written[1].ok
    /\ runs[2].written[2].ok
    /\ runs[2].written[2].row \in store
    /\ runs[1].written[2].row \notin store
    /\ runs[2].results = [inserted |-> 1, updated |-> 0, errors |-> 1]

\* C3: a product whose embedding failed (embedding absent) is still passed
\* to the sink, and its successful write is counted under 'inserted'.
C3_EmbeddingDegradation ==
    \A n \in 1..Len(runs) :
       \A i \in 1..Len(runs[n].products) :
          runs[n].products[i].embedding = JNull =>
             /\ runs[n].status = "ok"
             /\ \E j \in 1..Len(runs[n].written) :
                   runs[n].batch[j] = runs[n].products[i]
             /\ runs[n].results.inserted = Count(runs[n].written, TRUE)

RECURSIVE SumErrors(_)
SumErrors(q) ==
    IF Len(q) = 0 THEN 0
    ELSE (IF Head(q).status = "ok" THEN Head(q).results.errors ELSE 0)
         + SumErrors(Tail(q))

RECURSIVE SumInserted(_)
SumInserted(q) ==
    IF Len(q) = 0 THEN 0
    ELSE (IF Head(q).status = "ok" THEN Head(q).results.inserted ELSE 0)
         + SumInserted(Tail(q))

Unreadable(q) == Cardinality({n \in 1..Len(q) : q[n].status = "unreadable"})

\* C4: when run_scraper returns, every source has been dealt with, and the
\* total is the sum of the sink tallies of the sources that could be read
\* plus one error for each source that could not be read or parsed.
C4_SourceIsolation ==
    pc = "done" =>
       /\ Len(runs) = Len(sources)
       /\ total.inserted = SumInserted(runs)
       /\ total.updated = 0
       /\ total.errors = SumErrors(runs) + Unreadable(runs)

\* The entries of `its` process_product returns a product for.
ValidEntries(its) ==
    {i \in 1..Len(its) :
        its[i].t = "map" /\ ProcessBody(its[i], FALSE).kind = "product"}

\* C5: no exception raised while normalizing an entry, an entry that is not
\* a mapping included, leaves process_json_response: the source is never
\* given up for it, and the products of all its valid entries are returned.
C5_NormalizerIsolation ==
    \A n \in 1..Len(runs) :
       /\ runs[n].status # "raised"
       /\ runs[n].status = "ok" =>
             Len(runs[n].products) = Cardinality(ValidEntries(runs[n].items))

Min(a, b) == IF a < b THEN a ELSE b

\* C6: when a limit n (a count, n >= 0) is supplied, the list handed to the
\* sink for a source is the first min(n, m) of its m valid records, in order.
C6_LimitTruncation ==
    \A n \in 1..Len(runs) :
       (runs[n].status = "ok" /\ limit # JNull /\ limit.v >= 0) =>
          runs[n].batch
             = SubSeq(runs[n].products, 1, Min(limit.v, Len(runs[n].products)))

---------------------------------------------------------------------------
(* The claims about the normalizer, on a source holding one listing. *)

\* The single entry of the source has been through process_product, and it
\* is a mapping (a RawListing).
Normalized == Len(items) = 1 /\ pos = 2 /\ items[1].t = "map"

\* The string a field holds; "" when the field is absent or no string.
StrField(m, k) == IF k \in DOMAIN m.v /\ m.v[k].t = "str" THEN m.v[k].v ELSE ""

HasField(m, k, type) == k \in DOMAIN m.v /\ m.v[k].t = type

\* The image the claim names: the primary image's src if present, otherwise
\* the src of the first entry of the images list.
ClaimedImage(l) ==
    LET primary == IF HasField(l, "primaryImage", "map")
                   THEN StrField(l.v["primaryImage"], "src") ELSE ""
    IN IF primary # "" THEN primary
       ELSE IF HasField(l, "images", "list") /\ Len(l.v["images"].v) > 0
               /\ l.v["images"].v[1].t = "map"
            THEN StrField(l.v["images"].v[1], "src")
            ELSE ""

\* The id is a non-empty string or a number.
HasId(l) == StrField(l, "id") # "" \/ HasField(l, "id", "num")

HasRequired(l) ==
    /\ HasId(l)
    /\ Strip(StrField(l, "name")) # ""
    /\ ClaimedImage(l) # ""

\* C7: a listing yields a product only when it has a non-empty id, a title
\* that is non-empty once trimmed and a non-empty image URL, the primary
\* image's src or else the first listed image's; a listing that fails one of
\* these yields no product, nothing of it reaches the sink or the store, and
\* no counter moves.
C7_RequiredFields ==
    Normalized =>
       /\ Len(products) <= 1
       /\ Len(products) = 1 =>
             /\ HasRequired(items[1])
             /\ products[1].image_url = ClaimedImage(items[1])
             /\ products[1].title = Strip(StrField(items[1], "name"))
       /\ ~HasRequired(items[1]) =>
             /\ products = <<>>
             /\ batch = <<>>
             /\ written = <<>>
             /\ store = {}
             /\ results = NoResults
             /\ total = NoResults

\* C7's case: a listing without a primary image whose first listed image is
\* img2 has been written to the store with that image.
C7_Witness ==
    /\ Normalized
    /\ pc = "done"
    /\ "primaryImage" \notin DOMAIN items[1].v
    /\ total.inserted = 1
    /\ \E r \in store : r.image_url = "img2"

\* A category whose text, in lower case, has a word beginning with "men".
IndicatesMen(c) ==
    LET low == Lower(c)
    IN \E i \in 1..(Len(low) - 2) :
          /\ SubSeq(low, i, i + 2) = "men"
          /\ (i = 1 \/ Char(low, i - 1) = " ")

CategoryLabels(l) == DictGet(l, "categories", JList(<<>>)).v

\* C8: the gender of a product is MAN exactly when one of the listing's
\* category labels holds a word indicating men's, compared without regard to
\* case, and WOMAN otherwise.
C8_GenderHeuristic ==
    (Normalized /\ Len(products) = 1) =>
       products[1].gender
          = IF \E i \in 1..Len(CategoryLabels(items[1])) :
                  IndicatesMen(CategoryLabels(items[1])[i].v)
            THEN "MAN" ELSE "WOMAN"

WithoutPrice(l) == JMap([k \in DOMAIN l.v \ {"price"} |-> l.v[k]])

\* The listing is valid but for its price: without the price field it
\* yields a product.
OtherwiseValid(l) == ProcessBody(WithoutPrice(l), FALSE).kind = "product"

\* C9: a listing that is valid but for its price always yields a product;
\* its price is 129.00 for "€129,00", 199.50 for "199.50", and 0.0 when the
\* price is absent, null, empty or not a number.
C9_PriceParsing ==
    (Normalized /\ OtherwiseValid(items[1])) =>
       /\ Len(products) = 1
       /\ StrField(items[1], "price") = "€129,00" =>
             products[1].price = [neg |-> FALSE, mant |-> 129, exp |-> 0]
       /\ StrField(items[1], "price") = "199.50" =>
             products[1].price = [neg |-> FALSE, mant |-> 1995, exp |-> 1]
       /\ StrField(items[1], "price") \in {"", "sold"} => products[1].price = Zero

\* C10: every product process_product returns and every row of the store
\* has price >= 0.
C10_PriceNonNegative ==
    /\ \A i \in 1..Len(products) : NonNegative(products[i].price)
    /\ \A r \in store : NonNegative(r.price)

Keywords == {"cashmere", "wool", "cotton"}

\* The known fabric keywords that occur, without regard to case, in one of
\* the listing's category labels.
KeywordsIn(l) ==
    {k \in Keywords :
        \E i \in 1..Len(CategoryLabels(l)) :
           Contains(k, Lower(CategoryLabels(l)[i].v))}

NoRepeat(q) == \A i, j \in 1..Len(q) : q[i] = q[j] => i = j

\* C11: the tags of a product hold each known fabric keyword (cashmere,
\* wool, cotton) that occurs case-insensitively in the listing's category
\* labels, each once, and are None, never an empty collection, when no
\* keyword occurs.
C11_TagDerivation ==
    (Normalized /\ Len(products) = 1) =>
       IF KeywordsIn(items[1]) = {}
       THEN products[1].tags = JNull
       ELSE /\ products[1].tags.t = "list"
            /\ NoRepeat(products[1].tags.v)
            /\ {products[1].tags.v[i] : i \in 1..Len(products[1].tags.v)}
                  = KeywordsIn(items[1])

\* The listing's external id, as text.
ExternalId(l) == Fmt(DictGet(l, "id", JStr("")))

\* C12: the id of every product process_product returns is the product's
\* own source field, an underscore, and the listing's external id.
C12_IdentifierFormat ==
    (Normalized /\ Len(products) = 1) =>
       products[1].id = products[1].source \o "_" \o ExternalId(items[1])

---------------------------------------------------------------------------
(* The claims about the order of the steps. *)

\* The sources read so far are the first of the sources supplied, in their
\* order, and a source is read only when run_scraper is done with all the
\* sources before it.
ReadInOrder ==
    /\ Len(reads) <= Len(sources)
    /\ reads = SubSeq(sources, 1, Len(reads))
    /\ Len(reads) = IF pc \in {"normalize", "import"} THEN Len(runs) + 1
                    ELSE Len(runs)
    /\ pc = "done" => reads = sources

\* The tally a finished source adds to the total.
Tally(run) ==
    IF run.status = "ok" THEN run.results
    ELSE [inserted |-> 0, updated |-> 0, errors |-> 1]

\* A step that reads a source finds every write of the source before it
\* done; a step that writes to the store is a step of import_products for
\* the source under way; the total changes only in the step that ends a
\* source, by that source's tally.
OrderedStep ==
    /\ reads' # reads =>
          /\ store' = store
          /\ Len(runs) = Len(reads)
          /\ \A n \in 1..Len(runs) :
                runs[n].status = "ok" => Len(runs[n].written) = Len(runs[n].batch)
    /\ store' # store =>
          /\ pc = "import"
          /\ reads' = reads
          /\ runs' = runs
          /\ Len(written') = Len(written) + 1
    /\ total' # total => Len(runs') = Len(runs) + 1
    /\ Len(runs') = Len(runs) + 1 =>
          /\ pc' = "next"
          /\ store' = store
          /\ total' = [inserted |-> total.inserted + Tally(runs'[Len(runs')]).inserted,
                       updated  |-> total.updated + Tally(runs'[Len(runs')]).updated,
                       errors   |-> total.errors + Tally(runs'[Len(runs')]).errors]

\* C13: run_scraper takes the sources in the order supplied (the files,
\* then the URLs), one at a time; every write of a source to the store
\* happens before the next source is read, and the running total changes
\* only when a source has completed or failed.
C13_SourceOrdering == []ReadInOrder /\ [][OrderedStep]_vars

\* C13's case: a file and then a URL, both read, in that order; the two
\* writes of the file are older than the write of the URL, and the total is
\* the sum of the two tallies.
C13_Witness ==
    /\ pc = "done"
    /\ sources = <<File(1), Url(1)>>
    /\ reads = sources
    /\ runs[1].status = "ok"
    /\ runs[2].status = "ok"
    /\ Len(runs[1].written) = 2
    /\ Len(runs[2].written) = 2
    /\ \A i, j \in 1..2 :
          runs[1].written[i].row.created_at < runs[2].written[j].row.created_at
    /\ total.inserted = runs[1].results.inserted + runs[2].results.inserted
    /\ total.inserted >= 3

\* The listing passes the three checks of process_product: `if not
\* product_id`, `if not image_url` and `if not title` all find a value.
PassesChecks(l) ==
    /\ l.t = "map"
    /\ Truthy(DictGet(l, "id", JStr("")))
    /\ ~ResolveImage(l).exc
    /\ Truthy(ResolveImage(l).url)
    /\ HasField(l, "name", "str")
    /\ Strip(StrField(l, "name")) # ""

\* One call for each of the first n entries that passes the checks, in the
\* order of the entries, with the image the entry resolves to.
RECURSIVE ExpectedCalls(_, _)
ExpectedCalls(its, n) ==
    IF n = 0 THEN <<>>
    ELSE ExpectedCalls(its, n - 1)
         \o (IF PassesChecks(its[n])
             THEN <<[pos |-> n, image_url |-> ClaimedImage(its[n])]>>
             ELSE <<>>)

\* run_scraper is done with the source read last.
SourceOver == Len(runs) = Len(reads)

\* C14: within a source generate_embedding is called exactly once for each
\* listing that passes the id, image and title checks, in the order of the
\* listings and before the next listing is examined, and never for a
\* listing those checks drop; when the source is over it has been called
\* for every such listing of the source, whatever the limit kept of them.
C14_EmbeddingCalls ==
    /\ calls = ExpectedCalls(items, pos - 1)
    /\ SourceOver => calls = ExpectedCalls(items, Len(items))

=============================================================================
